---- MODULE Spec2Model ----
(***************************************************************************)
(* stumptown-deployer: the upload direction (deployer/upload.py) and the   *)
(* download direction (deployer/kumadownloader.py, deployer/main.py).      *)
(* File names, keys and cache-file lines are sequences of one-character    *)
(* strings, so that the regular expression of upload.py and the line       *)
(* format of the etag cache are computed the way the code computes them.   *)
(***************************************************************************)
EXTENDS Integers, Sequences, FiniteSets, TLC

(***************************************************************************)
(* Bounds of the model.                                                    *)
(***************************************************************************)
\* The batch length that triggers _start_uploads (1000 in upload.py:228),
\* scaled down so that full and partial batches both occur.
BatchLimit == 2
\* Keys per list_objects_v2 response (the store's page size).
PageSize == 1

(***************************************************************************)
(* Program constants.                                                      *)
(***************************************************************************)
MAX_WORKERS_PARALLEL_UPLOADS == 50
DEFAULT_CACHE_CONTROL == 3600
HASHED_CACHE_CONTROL == 31536000
\* hashed_filename_regex = \.[a-f0-9]{8,32}\.
HashedMinLen == 8
HashedMaxLen == 32

HexChars == {"a", "b", "c", "d", "e", "f",
             "0", "1", "2", "3", "4", "5", "6", "7", "8", "9"}

(***************************************************************************)
(* The local tree and the bucket the model explores.                       *)
(***************************************************************************)
IndexHtml == <<"i","n","d","e","x",".","h","t","m","l">>
IndexRedirect == <<"i","n","d","e","x",".","r","e","d","i","r","e","c","t">>
\* app.abcdef12.js : 8 hex characters between dots
HashedJs == <<"a","p","p",".","a","b","c","d","e","f","1","2",".","j","s">>
DsStore == <<".","D","S","_","S","t","o","r","e">>
ServiceWorkerJs == <<"s","e","r","v","i","c","e","-","w","o","r","k","e","r",".","j","s">>

P_index == [dir |-> "d", name |-> IndexHtml]
P_redirect == [dir |-> "d", name |-> IndexRedirect]
P_hashed == [dir |-> "", name |-> HashedJs]
P_junk == [dir |-> "", name |-> DsStore]

CandidatePaths == {P_index, P_redirect, P_hashed, P_junk}

NoFile == "absent"
Contents == {"c1a", "c1b", "c2a"}
\* what a candidate path may hold in the local tree
LocalChoices(p) ==
    IF p = P_index THEN {NoFile, "c1a", "c2a"}
    ELSE IF p = P_redirect THEN {NoFile, "c1b"}
    ELSE IF p = P_hashed THEN {NoFile, "c1a"}
    ELSE {NoFile, "c1a"}

\* st_size of a file with this content
SizeOf(c) == IF c = "c2a" THEN 2 ELSE 1

\* hashlib.md5(content).hexdigest(): distinct contents, distinct digests
md5(c) ==
    CASE c = "c1a" -> "md5-c1a"
      [] c = "c1b" -> "md5-c1b"
      [] c = "c2a" -> "md5-c2a"

None == "None"
\* continuation_token = None, in the shape of a key
NoToken == [dir |-> "", name |-> <<>>]


(***************************************************************************)
(* State.                                                                  *)
(***************************************************************************)
VARIABLES
    \* ---- upload direction (upload.py) ----
    local,              \* the directory: path -> content (or NoFile)
    bucket,             \* the destination bucket: key -> stored object
    refresh,            \* config["refresh"]
    second_run,         \* TRUE in a run that follows a completed run
    disturbed,          \* TRUE once someone else deleted from the bucket
    pc,                 \* where upload_site's own thread is
    continuation_token, \* of the list_objects_v2 loop
    uploaded_already,   \* key -> listed object
    remaining,          \* paths pwalk has not yielded yet
    batch,              \* the list of UploadTask being filled or running
    futures,            \* per task of the running batch: the worker's state
    stats_counts,       \* counts of _start_uploads
    counts,             \* counts of upload_site
    total_size,         \* total_size of upload_site (a list)
    skipped,            \* skipped of upload_site
    total_count,        \* total_count of upload_site
    classified,         \* path -> what the walk loop did with it
    probed,             \* paths whose task called head_object
    upload_file_calls,  \* paths whose task called upload_file
    log,                \* the info() lines of _upload_file_maybe
    list_calls          \* the ContinuationToken of every list_objects_v2 call

upload_vars == <<local, bucket, refresh, second_run, disturbed, pc,
                 continuation_token, uploaded_already, remaining, batch,
                 futures, stats_counts, counts, total_size, skipped,
                 total_count, classified, probed, upload_file_calls, log,
                 list_calls>>

VARIABLES
    \* ---- download direction (kumadownloader.py, main.py) ----
    remote,             \* the source bucket: key -> [ETag, json]
    disk,               \* relative path -> content, the files under destination
    cache_file,         \* text of _etags_cache.txt, or NoFile
    new_files_file,     \* text of _new_files.txt, or NoFile
    via_cli,            \* the run is started by the kumadownload command
    opt_refresh,        \* --refresh as given to kumadownload
    opt_check,          \* --check-for-existence as given to kumadownload
    dl_second_run,      \* TRUE in a run that follows a run that ended well
    dl_pc,              \* where download_kuma_s3_bucket's own thread is
    downloaded_etags,   \* dict etag -> rel_path, a sequence of pairs
    new_etags,          \* dict etag -> rel_path of this run
    dl_token,           \* continuation_token of the listing loop
    dl_response,        \* IsTruncated and NextContinuationToken of the page
    todo,               \* dict key -> etag of the page being downloaded
    too_long_directories, \* directory -> new_directory of download()
    dl_futures,         \* per entry of todo: the worker's state
    done,               \* dict etag -> rel_path of download()
    loaded,             \* downloaded_etags as the load left it
    cache_before,       \* cache_file when the run started
    completed,          \* etags of the batches download() returned from
    decision,           \* key -> what the listing loop decided for it
    fetched,            \* keys for which download_fileobj was called
    dirs                \* the directories under the destination, as parts

download_vars == <<remote, disk, cache_file, new_files_file, via_cli,
                   opt_refresh, opt_check, dl_second_run, dl_pc,
                   downloaded_etags, new_etags, dl_token, dl_response, todo,
                   too_long_directories, dl_futures, done, loaded,
                   cache_before, completed, decision, fetched, dirs>>

vars == <<upload_vars, download_vars>>

(***************************************************************************)
(* upload.py: helpers.                                                     *)
(***************************************************************************)
\* is_junk_file (deployer.utils): hidden dotfiles and editor backups
is_junk_file(fp) ==
    IF fp.name[1] = "." THEN TRUE ELSE fp.name[Len(fp.name)] = "~"

\* mutant: the pattern is matched at the start of the name only (re.match)
_has_hashed_filename_match(fn) ==
    \E n \in HashedMinLen..HashedMaxLen :
        /\ n + 2 <= Len(fn.name)
        /\ fn.name[1] = "."
        /\ \A j \in 1..n : fn.name[1 + j] \in HexChars
        /\ fn.name[n + 2] = "."

\* hashed_filename_regex.findall(os.path.basename(fn)) is non-empty
_has_hashed_filename(fn) ==
    \E i \in 1..Len(fn.name) :
      \E n \in HashedMinLen..HashedMaxLen :
        /\ i + n + 1 <= Len(fn.name)
        /\ fn.name[i] = "."
        /\ \A j \in 1..n : fn.name[i + j] \in HexChars
        /\ fn.name[i + n + 1] = "."

\* key_path = fp.relative_to(directory), "index.redirect" stored as index.html
KeyOf(fp) ==
    IF fp.name = IndexRedirect THEN [dir |-> fp.dir, name |-> IndexHtml]
    ELSE fp

Keys == {KeyOf(p) : p \in CandidatePaths}

\* a task that is hashed when it is made (the lines 199-200 left commented out)
UploadTask_Eager(fp) ==
    [key |-> KeyOf(fp), file_path |-> fp, size |-> SizeOf(local[fp]),
     file_hash |-> md5(local[fp]), needs_hash_check |-> FALSE]

\* UploadTask(key, fp, size, None, False)
UploadTask(fp) ==
    [key |-> KeyOf(fp), file_path |-> fp, size |-> SizeOf(local[fp]),
     file_hash |-> None, needs_hash_check |-> FALSE]

\* mutant: the size of the listed object is not compared
DefinitelyChanged_KeyOnly(task) ==
    task.key \notin DOMAIN uploaded_already

\* the walk loop's test for "no doubt": key not listed, or another size
DefinitelyChanged(task) ==
    IF task.key \notin DOMAIN uploaded_already THEN TRUE
    ELSE uploaded_already[task.key].Size # task.size

\* cache_control of _upload_file_maybe
CacheControl(fp) ==
    IF fp.name = ServiceWorkerJs THEN [no_cache |-> TRUE, max_age |-> 0]
    ELSE IF _has_hashed_filename(fp)
         THEN [no_cache |-> FALSE, max_age |-> HASHED_CACHE_CONTROL]
         ELSE [no_cache |-> FALSE, max_age |-> DEFAULT_CACHE_CONTROL]

\* what s3.upload_file leaves under task.key
StoredObject(task) ==
    [content |-> local[task.file_path],
     Size |-> SizeOf(local[task.file_path]),
     Metadata |-> [filehash |-> task.file_hash],
     CacheControl |-> CacheControl(task.file_path),
     WebsiteRedirectLocation |-> (task.file_path.name = IndexRedirect)]

\* an object some other tool or an earlier deploy left in the bucket
ForeignObjects ==
    {[content |-> c, Size |-> SizeOf(c), Metadata |-> [filehash |-> h],
      CacheControl |-> [no_cache |-> TRUE, max_age |-> 0],
      WebsiteRedirectLocation |-> FALSE] :
        c \in Contents, h \in {None} \cup {md5(d) : d \in Contents}}

\* an empty dict
EmptyMap == [x \in {} |-> None]
Put(f, k, v) == [x \in DOMAIN f \cup {k} |-> IF x = k THEN v ELSE f[x]]
Remove(f, k) == [x \in DOMAIN f \ {k} |-> f[x]]

\* the keys of the bucket in listing order, as a sequence: the keys of the
\* top directory ("app...") come before those under "d/"
KeyRank(k) == IF k.dir = "" THEN 1 ELSE 2
RECURSIVE SortedKeys(_)
SortedKeys(S) ==
    IF S = {} THEN <<>>
    ELSE LET k == CHOOSE x \in S : \A y \in S : KeyRank(x) <= KeyRank(y)
         IN <<k>> \o SortedKeys(S \ {k})


(***************************************************************************)
(* upload.py: upload_site.                                                 *)
(***************************************************************************)
Unclassified == "unclassified"
\* a submitted task: where its worker is, what head_object answered (the stored
\* filehash, "404" or "error"), which call raised, what the task returned
Queued == [st |-> "queued", probe |-> "none", error |-> "none",
           was_uploaded |-> FALSE, collected |-> FALSE]

\* the bucket a run may find: nothing, or objects left by anyone
InitialBuckets ==
    LET idx == KeyOf(P_index)
        hsh == KeyOf(P_hashed)
        for_idx == {o \in ForeignObjects :
                      o.Metadata.filehash \in {None, md5(o.content)}}
        for_hsh == {o \in ForeignObjects :
                      o.Metadata.filehash = md5(o.content)}
    IN  {EmptyMap}
        \cup {Put(EmptyMap, idx, o) : o \in for_idx}
        \cup {Put(EmptyMap, hsh, o) : o \in for_hsh}
        \cup {Put(Put(EmptyMap, idx, o), hsh, q) : o \in for_idx, q \in for_hsh}

LocalTrees ==
    {t \in [CandidatePaths -> {NoFile} \cup Contents] :
        \A p \in CandidatePaths : t[p] \in LocalChoices(p)}

\* the locals of upload_site at line 151 and from line 172 on
StartOfRun ==
    /\ pc = "list"
    /\ continuation_token = NoToken
    /\ uploaded_already = EmptyMap
    /\ remaining = {p \in CandidatePaths : local[p] # NoFile}
    /\ batch = <<>>
    /\ futures = <<>>
    /\ stats_counts = [uploaded |-> 0, not_uploaded |-> 0]
    /\ counts = [uploaded |-> 0, not_uploaded |-> 0]
    /\ total_size = <<>>
    /\ skipped = 0
    /\ total_count = 0
    /\ classified = [p \in CandidatePaths |-> Unclassified]
    /\ probed = {}
    /\ upload_file_calls = {}
    /\ log = {}
    /\ list_calls = <<>>

UploadInit ==
    /\ local \in LocalTrees
    /\ bucket \in InitialBuckets
    /\ refresh \in BOOLEAN
    /\ second_run = FALSE
    /\ disturbed = FALSE
    /\ StartOfRun

\* config["refresh"]: the listing is skipped (lines 153-154)
Refresh ==
    /\ pc = "list"
    /\ refresh
    /\ pc' = "walk"
    /\ UNCHANGED <<local, bucket, refresh, second_run, disturbed,
                   continuation_token, uploaded_already, remaining, batch,
                   futures, stats_counts, counts, total_size, skipped,
                   total_count, classified, probed, upload_file_calls, log>>
    /\ UNCHANGED download_vars
    /\ UNCHANGED list_calls

\* s3.list_objects_v2(**list_kwargs): the keys after the token, a page of them
ListResponse ==
    LET all == SortedKeys(DOMAIN bucket)
        after == IF continuation_token = NoToken THEN all
                 ELSE SelectSeq(all, LAMBDA k :
                          KeyRank(k) > KeyRank(continuation_token))
        n == IF Len(after) < PageSize THEN Len(after) ELSE PageSize
    IN  [Contents |-> SubSeq(after, 1, n),
         IsTruncated |-> Len(after) > PageSize]

\* a listing that stops after its first page
ListObjects_OnePage ==
    /\ pc = "list"
    /\ ~refresh
    /\ LET response == ListResponse
           page == {response.Contents[i] : i \in 1..Len(response.Contents)}
       IN  uploaded_already' =
                 [k \in DOMAIN uploaded_already \cup page |->
                     IF k \in page THEN [Key |-> k, Size |-> bucket[k].Size]
                     ELSE uploaded_already[k]]
    /\ pc' = "walk"
    /\ UNCHANGED <<local, bucket, refresh, second_run, disturbed, remaining,
                   batch, futures, stats_counts, counts, total_size, skipped,
                   total_count, classified, probed, upload_file_calls, log,
                   continuation_token>>
    /\ list_calls' = Append(list_calls, continuation_token)
    /\ UNCHANGED download_vars

\* one turn of the while loop of lines 157-168
ListObjects ==
    /\ pc = "list"
    /\ ~refresh
    /\ LET response == ListResponse
           page == {response.Contents[i] : i \in 1..Len(response.Contents)}
       IN  /\ uploaded_already' =
                 [k \in DOMAIN uploaded_already \cup page |->
                     IF k \in page THEN [Key |-> k, Size |-> bucket[k].Size]
                     ELSE uploaded_already[k]]
           /\ IF response.IsTruncated
              THEN /\ continuation_token' =
                        response.Contents[Len(response.Contents)]
                   /\ pc' = "list"
              ELSE /\ pc' = "walk"
                   /\ UNCHANGED continuation_token
    /\ UNCHANGED <<local, bucket, refresh, second_run, disturbed, remaining,
                   batch, futures, stats_counts, counts, total_size, skipped,
                   total_count, classified, probed, upload_file_calls, log>>
    /\ list_calls' = Append(list_calls, continuation_token)
    /\ UNCHANGED download_vars


\* batch.append(task), then lines 228-232: a full batch goes to _start_uploads,
\* whose submit loop (lines 256-266) queues every task of it
Enqueue(task) ==
    LET b == Append(batch, task)
    IN  /\ batch' = b
        /\ IF Len(b) >= BatchLimit
           THEN /\ futures' = [i \in 1..Len(b) |-> Queued]
                /\ stats_counts' = [uploaded |-> 0, not_uploaded |-> 0]
                /\ pc' = "pool"
           ELSE UNCHANGED <<futures, stats_counts, pc>>

\* lines 188-190: a junk file is counted and left out
WalkJunk(fp) ==
    /\ pc = "walk"
    /\ fp \in remaining
    /\ is_junk_file(fp)
    /\ remaining' = remaining \ {fp}
    /\ skipped' = skipped + 1
    /\ classified' = [classified EXCEPT ![fp] = "junk"]
    /\ UNCHANGED <<local, bucket, refresh, second_run, disturbed, pc,
                   continuation_token, uploaded_already, batch, futures,
                   stats_counts, counts, total_size, total_count, probed,
                   upload_file_calls, log>>
    /\ UNCHANGED download_vars
    /\ UNCHANGED list_calls

\* lines 201-205: not listed, or listed with another size
WalkDefinite(fp) ==
    /\ pc = "walk"
    /\ fp \in remaining
    /\ ~is_junk_file(fp)
    /\ DefinitelyChanged(UploadTask(fp))
    /\ remaining' = remaining \ {fp}
    /\ classified' = [classified EXCEPT ![fp] = "DefiniteTransfer"]
    /\ Enqueue(UploadTask(fp))
    /\ UNCHANGED <<local, bucket, refresh, second_run, disturbed,
                   continuation_token, uploaded_already, counts, total_size,
                   skipped, total_count, probed, upload_file_calls, log>>
    /\ UNCHANGED download_vars
    /\ UNCHANGED list_calls

\* lines 220-223: listed with the same size, and the name is digest hashed
WalkSkip(fp) ==
    /\ pc = "walk"
    /\ fp \in remaining
    /\ ~is_junk_file(fp)
    /\ ~DefinitelyChanged(UploadTask(fp))
    /\ _has_hashed_filename(KeyOf(fp))
    /\ remaining' = remaining \ {fp}
    /\ skipped' = skipped + 1
    /\ classified' = [classified EXCEPT ![fp] = "Skip"]
    /\ UNCHANGED <<local, bucket, refresh, second_run, disturbed, pc,
                   continuation_token, uploaded_already, batch, futures,
                   stats_counts, counts, total_size, total_count, probed,
                   upload_file_calls, log>>
    /\ UNCHANGED download_vars
    /\ UNCHANGED list_calls

\* lines 224-226: listed with the same size, the name is not hashed
WalkVerify(fp) ==
    /\ pc = "walk"
    /\ fp \in remaining
    /\ ~is_junk_file(fp)
    /\ ~DefinitelyChanged(UploadTask(fp))
    /\ ~_has_hashed_filename(KeyOf(fp))
    /\ remaining' = remaining \ {fp}
    /\ classified' = [classified EXCEPT ![fp] = "VerifyThenTransfer"]
    /\ Enqueue([UploadTask(fp) EXCEPT !.needs_hash_check = TRUE])
    /\ UNCHANGED <<local, bucket, refresh, second_run, disturbed,
                   continuation_token, uploaded_already, counts, total_size,
                   skipped, total_count, probed, upload_file_calls, log>>
    /\ UNCHANGED download_vars
    /\ UNCHANGED list_calls

\* lines 234-235: what is left of the batch when the walk is over
FinalBatch ==
    /\ pc = "walk"
    /\ remaining = {}
    /\ batch # <<>>
    /\ futures' = [i \in 1..Len(batch) |-> Queued]
    /\ stats_counts' = [uploaded |-> 0, not_uploaded |-> 0]
    /\ pc' = "pool"
    /\ UNCHANGED <<local, bucket, refresh, second_run, disturbed,
                   continuation_token, uploaded_already, remaining, batch,
                   counts, total_size, skipped, total_count, classified,
                   probed, upload_file_calls, log>>
    /\ UNCHANGED download_vars
    /\ UNCHANGED list_calls

\* an end of the walk that forgets the batch that is not full
Finish_DropBatch ==
    /\ pc = "walk"
    /\ remaining = {}
    /\ pc' = "done"
    /\ UNCHANGED <<local, bucket, refresh, second_run, disturbed,
                   continuation_token, uploaded_already, remaining, batch,
                   futures, stats_counts, counts, total_size, skipped,
                   total_count, classified, probed, upload_file_calls, log>>
    /\ UNCHANGED download_vars
    /\ UNCHANGED list_calls

\* lines 238-241: the walk is over and nothing is left to send
Finish ==
    /\ pc = "walk"
    /\ remaining = {}
    /\ batch = <<>>
    /\ pc' = "done"
    /\ UNCHANGED <<local, bucket, refresh, second_run, disturbed,
                   continuation_token, uploaded_already, remaining, batch,
                   futures, stats_counts, counts, total_size, skipped,
                   total_count, classified, probed, upload_file_calls, log>>
    /\ UNCHANGED download_vars
    /\ UNCHANGED list_calls

(***************************************************************************)
(* upload.py: _upload_file_maybe, one worker per submitted task.           *)
(***************************************************************************)
Running == {i \in DOMAIN futures : futures[i].st \in {"head", "put"}}
Finished == {i \in DOMAIN futures : futures[i].st \in {"returned", "raised"}}
PoolOpen == pc \in {"pool", "exit_pool"}

\* lines 298-301: a worker takes the task and hashes the file
SetFileHash(i) ==
    /\ PoolOpen
    /\ i \in DOMAIN futures
    /\ futures[i].st = "queued"
    /\ Cardinality(Running) < MAX_WORKERS_PARALLEL_UPLOADS
    /\ batch' = [batch EXCEPT ![i].file_hash =
                    IF batch[i].file_hash = None
                    THEN md5(local[batch[i].file_path])
                    ELSE batch[i].file_hash]
    /\ futures' = [futures EXCEPT ![i].st =
                    IF batch[i].needs_hash_check THEN "head" ELSE "put"]
    /\ UNCHANGED <<local, bucket, refresh, second_run, disturbed, pc,
                   continuation_token, uploaded_already, remaining,
                   stats_counts, counts, total_size, skipped, total_count,
                   classified, probed, upload_file_calls, log>>
    /\ UNCHANGED download_vars
    /\ UNCHANGED list_calls

\* mutant: the sizes are compared once more instead of the hashes
SameFileHash_Size(object_data, task) ==
    object_data.Size = task.size

\* object_data["Metadata"].get("filehash") == task.file_hash (line 304)
SameFileHash(object_data, task) ==
    object_data.Metadata.filehash = task.file_hash

\* lines 303-310: the probe finds the stored hash equal, the task returns False
HeadObjectSame(i) ==
    /\ PoolOpen
    /\ i \in DOMAIN futures
    /\ futures[i].st = "head"
    /\ batch[i].key \in DOMAIN bucket
    /\ SameFileHash(bucket[batch[i].key], batch[i])
    /\ probed' = probed \cup {batch[i].file_path}
    /\ futures' = [futures EXCEPT ![i].st = "returned",
                                  ![i].probe = bucket[batch[i].key].Metadata.filehash,
                                  ![i].was_uploaded = FALSE]
    /\ log' = log \cup {[label |-> "Skipped", path |-> batch[i].file_path]}
    /\ UNCHANGED <<local, bucket, refresh, second_run, disturbed, pc,
                   continuation_token, uploaded_already, remaining, batch,
                   stats_counts, counts, total_size, skipped, total_count,
                   classified, upload_file_calls>>
    /\ UNCHANGED download_vars
    /\ UNCHANGED list_calls

\* lines 303-304: the probe finds another hash, or none: on to the upload
HeadObjectDiffers(i) ==
    /\ PoolOpen
    /\ i \in DOMAIN futures
    /\ futures[i].st = "head"
    /\ batch[i].key \in DOMAIN bucket
    /\ ~SameFileHash(bucket[batch[i].key], batch[i])
    /\ probed' = probed \cup {batch[i].file_path}
    /\ futures' = [futures EXCEPT ![i].st = "put",
                                  ![i].probe = bucket[batch[i].key].Metadata.filehash]
    /\ UNCHANGED <<local, bucket, refresh, second_run, disturbed, pc,
                   continuation_token, uploaded_already, remaining, batch,
                   stats_counts, counts, total_size, skipped, total_count,
                   classified, upload_file_calls, log>>
    /\ UNCHANGED download_vars
    /\ UNCHANGED list_calls

\* mutant: the 404 of the probe is raised like any other ClientError
HeadObject404_Raise(i) ==
    /\ PoolOpen
    /\ i \in DOMAIN futures
    /\ futures[i].st = "head"
    /\ batch[i].key \notin DOMAIN bucket
    /\ probed' = probed \cup {batch[i].file_path}
    /\ futures' = [futures EXCEPT ![i].st = "raised", ![i].probe = "404",
                                  ![i].error = "head_object"]
    /\ UNCHANGED <<local, bucket, refresh, second_run, disturbed, pc,
                   continuation_token, uploaded_already, remaining, batch,
                   stats_counts, counts, total_size, skipped, total_count,
                   classified, upload_file_calls, log>>
    /\ UNCHANGED download_vars
    /\ UNCHANGED list_calls

\* lines 311-318: ClientError 404, the listing is out of sync: on to the upload
HeadObject404(i) ==
    /\ PoolOpen
    /\ i \in DOMAIN futures
    /\ futures[i].st = "head"
    /\ batch[i].key \notin DOMAIN bucket
    /\ probed' = probed \cup {batch[i].file_path}
    /\ futures' = [futures EXCEPT ![i].st = "put", ![i].probe = "404"]
    /\ UNCHANGED <<local, bucket, refresh, second_run, disturbed, pc,
                   continuation_token, uploaded_already, remaining, batch,
                   stats_counts, counts, total_size, skipped, total_count,
                   classified, upload_file_calls, log>>
    /\ UNCHANGED download_vars
    /\ UNCHANGED list_calls

\* lines 314-315: any other ClientError is raised again
HeadObjectError(i) ==
    /\ PoolOpen
    /\ i \in DOMAIN futures
    /\ futures[i].st = "head"
    /\ probed' = probed \cup {batch[i].file_path}
    /\ futures' = [futures EXCEPT ![i].st = "raised", ![i].probe = "error",
                                  ![i].error = "head_object"]
    /\ UNCHANGED <<local, bucket, refresh, second_run, disturbed, pc,
                   continuation_token, uploaded_already, remaining, batch,
                   stats_counts, counts, total_size, skipped, total_count,
                   classified, upload_file_calls, log>>
    /\ UNCHANGED download_vars
    /\ UNCHANGED list_calls

\* lines 320-356: s3.upload_file, then the task returns True
UploadFile(i) ==
    /\ PoolOpen
    /\ i \in DOMAIN futures
    /\ futures[i].st = "put"
    /\ bucket' = Put(bucket, batch[i].key, StoredObject(batch[i]))
    /\ upload_file_calls' = upload_file_calls \cup {batch[i].file_path}
    /\ futures' = [futures EXCEPT ![i].st = "returned",
                                  ![i].was_uploaded = TRUE]
    /\ log' = log \cup
         {[label |-> IF batch[i].needs_hash_check THEN "Updated" ELSE "Uploaded",
           path |-> batch[i].file_path]}
    /\ UNCHANGED <<local, refresh, second_run, disturbed, pc,
                   continuation_token, uploaded_already, remaining, batch,
                   stats_counts, counts, total_size, skipped, total_count,
                   classified, probed>>
    /\ UNCHANGED download_vars
    /\ UNCHANGED list_calls

\* lines 341-347: s3.upload_file raises, nothing is stored
UploadFileError(i) ==
    /\ PoolOpen
    /\ i \in DOMAIN futures
    /\ futures[i].st = "put"
    /\ upload_file_calls' = upload_file_calls \cup {batch[i].file_path}
    /\ futures' = [futures EXCEPT ![i].st = "raised",
                                  ![i].error = "upload_file"]
    /\ UNCHANGED <<local, bucket, refresh, second_run, disturbed, pc,
                   continuation_token, uploaded_already, remaining, batch,
                   stats_counts, counts, total_size, skipped, total_count,
                   classified, probed, log>>
    /\ UNCHANGED download_vars
    /\ UNCHANGED list_calls


(***************************************************************************)
(* upload.py: _start_uploads, the thread of upload_site.                   *)
(***************************************************************************)
\* total_size_uploaded of _start_uploads: set at line 250, returned at line 284
total_size_uploaded == 0

\* lines 268-276: as_completed hands over a future that returned
CollectResult(i) ==
    /\ pc = "pool"
    /\ i \in DOMAIN futures
    /\ futures[i].st = "returned"
    /\ ~futures[i].collected
    /\ futures' = [futures EXCEPT ![i].collected = TRUE]
    /\ stats_counts' =
         IF futures[i].was_uploaded
         THEN [stats_counts EXCEPT !.uploaded = @ + 1]
         ELSE [stats_counts EXCEPT !.not_uploaded = @ + 1]
    /\ UNCHANGED <<local, bucket, refresh, second_run, disturbed, pc,
                   continuation_token, uploaded_already, remaining, batch,
                   counts, total_size, skipped, total_count, classified,
                   probed, upload_file_calls, log>>
    /\ UNCHANGED download_vars
    /\ UNCHANGED list_calls

\* line 269: future.result() raises what the task raised; the with block of
\* line 251 is left by the exception
CollectRaise(i) ==
    /\ pc = "pool"
    /\ i \in DOMAIN futures
    /\ futures[i].st = "raised"
    /\ ~futures[i].collected
    /\ futures' = [futures EXCEPT ![i].collected = TRUE]
    /\ pc' = "exit_pool"
    /\ UNCHANGED <<local, bucket, refresh, second_run, disturbed,
                   continuation_token, uploaded_already, remaining, batch,
                   stats_counts, counts, total_size, skipped, total_count,
                   classified, probed, upload_file_calls, log>>
    /\ UNCHANGED download_vars
    /\ UNCHANGED list_calls

\* mutant: the executor is left without waiting for its workers
ExitPool_NoWait ==
    /\ pc = "exit_pool"
    /\ pc' = "raised"
    /\ UNCHANGED <<local, bucket, refresh, second_run, disturbed,
                   continuation_token, uploaded_already, remaining, batch,
                   futures, stats_counts, counts, total_size, skipped,
                   total_count, classified, probed, upload_file_calls, log>>
    /\ UNCHANGED download_vars
    /\ UNCHANGED list_calls

\* ThreadPoolExecutor.__exit__ is shutdown(wait=True): the exception leaves
\* _start_uploads, and upload_site with it, once every worker is through
ExitPool ==
    /\ pc = "exit_pool"
    /\ Finished = DOMAIN futures
    /\ pc' = "raised"
    /\ UNCHANGED <<local, bucket, refresh, second_run, disturbed,
                   continuation_token, uploaded_already, remaining, batch,
                   futures, stats_counts, counts, total_size, skipped,
                   total_count, classified, probed, upload_file_calls, log>>
    /\ UNCHANGED download_vars
    /\ UNCHANGED list_calls

\* lines 278-285 and update_uploaded_stats (179-182), then lines 231-232 or 236
EndStartUploads ==
    /\ pc = "pool"
    /\ \A i \in DOMAIN futures : futures[i].collected
    /\ counts' = [uploaded |-> counts.uploaded + stats_counts.uploaded,
                  not_uploaded |-> counts.not_uploaded + stats_counts.not_uploaded]
    /\ total_size' = Append(total_size, total_size_uploaded)
    /\ total_count' = total_count + Len(batch)
    /\ batch' = <<>>
    /\ futures' = <<>>
    /\ pc' = "walk"
    /\ UNCHANGED <<local, bucket, refresh, second_run, disturbed,
                   continuation_token, uploaded_already, remaining,
                   stats_counts, skipped, classified, probed,
                   upload_file_calls, log>>
    /\ UNCHANGED download_vars
    /\ UNCHANGED list_calls

(***************************************************************************)
(* The world around a run.                                                 *)
(***************************************************************************)
\* someone else deletes an object after the listing has read the bucket
ExternalDelete(k) ==
    /\ pc \in {"walk", "pool", "exit_pool"}
    /\ k \in DOMAIN bucket
    /\ bucket' = Remove(bucket, k)
    /\ disturbed' = TRUE
    /\ UNCHANGED <<local, refresh, second_run, pc, continuation_token,
                   uploaded_already, remaining, batch, futures, stats_counts,
                   counts, total_size, skipped, total_count, classified,
                   probed, upload_file_calls, log>>
    /\ UNCHANGED download_vars
    /\ UNCHANGED list_calls

\* upload_site is run again on the same directory and bucket
Rerun ==
    /\ pc = "done"
    /\ ~second_run
    /\ second_run' = TRUE
    /\ refresh' \in BOOLEAN
    /\ UNCHANGED <<local, bucket, disturbed>>
    /\ UNCHANGED download_vars
    /\ list_calls' = <<>>
    /\ pc' = "list"
    /\ continuation_token' = NoToken
    /\ uploaded_already' = EmptyMap
    /\ remaining' = {p \in CandidatePaths : local[p] # NoFile}
    /\ batch' = <<>>
    /\ futures' = <<>>
    /\ stats_counts' = [uploaded |-> 0, not_uploaded |-> 0]
    /\ counts' = [uploaded |-> 0, not_uploaded |-> 0]
    /\ total_size' = <<>>
    /\ skipped' = 0
    /\ total_count' = 0
    /\ classified' = [p \in CandidatePaths |-> Unclassified]
    /\ probed' = {}
    /\ upload_file_calls' = {}
    /\ log' = {}

Walk ==
    \E fp \in CandidatePaths :
        WalkJunk(fp) \/ WalkDefinite(fp) \/ WalkSkip(fp) \/ WalkVerify(fp)

Worker ==
    \E i \in 1..BatchLimit :
        \/ SetFileHash(i)
        \/ HeadObjectSame(i)
        \/ HeadObjectDiffers(i)
        \/ HeadObject404(i)
        \/ UploadFile(i)

\* the workers when nobody else touches the bucket
WorkerAlone ==
    \E i \in 1..BatchLimit :
        \/ SetFileHash(i)
        \/ HeadObjectSame(i)
        \/ HeadObjectDiffers(i)
        \/ UploadFile(i)

WorkerError ==
    \E i \in 1..BatchLimit : HeadObjectError(i) \/ UploadFileError(i)

Collect ==
    \E i \in 1..BatchLimit : CollectResult(i)

CollectError ==
    \/ \E i \in 1..BatchLimit : CollectRaise(i)
    \/ ExitPool

NextUpload ==
    \/ Refresh
    \/ ListObjects
    \/ Walk
    \/ FinalBatch
    \/ Finish
    \/ Worker
    \/ WorkerError
    \/ Collect
    \/ CollectError
    \/ EndStartUploads
    \/ \E k \in Keys : ExternalDelete(k)


NextRerun ==
    \/ Refresh
    \/ ListObjects
    \/ Walk
    \/ FinalBatch
    \/ Finish
    \/ WorkerAlone
    \/ Collect
    \/ EndStartUploads
    \/ Rerun



(***************************************************************************)
(* Properties of the upload direction.                                     *)
(***************************************************************************)
\* the tasks of the current batch made for a path
TasksOf(fp) == {i \in DOMAIN batch : batch[i].file_path = fp}
\* the walk loop has seen the path and has not dropped it as junk
Walked(fp) == classified[fp] \notin {Unclassified, "junk"}
\* the listing holds the key of the path with the size the file has now
ListedWithSameSize(fp) ==
    IF KeyOf(fp) \in DOMAIN uploaded_already
    THEN uploaded_already[KeyOf(fp)].Size = SizeOf(local[fp])
    ELSE FALSE
Logged(label, fp) == [label |-> label, path |-> fp] \in log
\* a dot, 8 to 32 lowercase hex characters, a dot
HashedPattern(name) ==
    \E i \in 1..Len(name) : \E j \in (i + 9)..Len(name) :
        /\ j - i - 1 <= 32
        /\ name[i] = "."
        /\ name[j] = "."
        /\ \A k \in (i + 1)..(j - 1) : name[k] \in HexChars

\* C1: without refresh, a non-junk file whose key is not in the listing, or is
\* there with another size, is a DefiniteTransfer: its task has
\* needs_hash_check = FALSE, no head_object is ever called for it, and when
\* its task returns, upload_file was called and the task counts as uploaded.
C1_DefiniteTransfer ==
    ~refresh =>
    \A fp \in CandidatePaths :
        (Walked(fp) /\ ~ListedWithSameSize(fp)) =>
            /\ classified[fp] = "DefiniteTransfer"
            /\ fp \notin probed
            /\ \A i \in TasksOf(fp) :
                 /\ ~batch[i].needs_hash_check
                 /\ i \in DOMAIN futures =>
                      /\ futures[i].probe = "none"
                      /\ futures[i].st = "returned" =>
                           /\ futures[i].was_uploaded
                           /\ fp \in upload_file_calls
                           /\ Logged("Uploaded", fp)
            /\ TasksOf(fp) = {} =>
                 (fp \in upload_file_calls /\ Logged("Uploaded", fp))

\* C1 witness: a run without refresh is over, and a file whose listed size was
\* another one and a file whose key was not listed were both uploaded unprobed.
C1_Witness ==
    /\ pc = "done"
    /\ ~refresh
    /\ \E fp \in CandidatePaths, fq \in CandidatePaths :
         /\ Walked(fp) /\ Walked(fq)
         /\ KeyOf(fp) \in DOMAIN uploaded_already
         /\ uploaded_already[KeyOf(fp)].Size # SizeOf(local[fp])
         /\ KeyOf(fq) \notin DOMAIN uploaded_already
         /\ {fp, fq} \subseteq upload_file_calls
         /\ probed \cap {fp, fq} = {}

\* C2 as stated: without refresh, a file with a hashed name is classified Skip
\* and never probed, whatever the listing says about its key.
C2_HashedAlwaysSkip ==
    ~refresh =>
    \A fp \in CandidatePaths :
        (Walked(fp) /\ HashedPattern(KeyOf(fp).name)) =>
            (classified[fp] = "Skip" /\ fp \notin probed)

\* C2 amended: a file with a hashed name is never probed, whatever the remote
\* state; it is classified Skip exactly when its key is listed with the same
\* size, and DefiniteTransfer (uploaded unverified) when the key is not listed
\* or is listed with another size.
C2_HashedNeverProbed ==
    \A fp \in CandidatePaths :
        (Walked(fp) /\ HashedPattern(KeyOf(fp).name)) =>
            /\ fp \notin probed
            /\ \A i \in TasksOf(fp) : ~batch[i].needs_hash_check
            /\ classified[fp] = "Skip" <=> ListedWithSameSize(fp)
            /\ classified[fp] = "DefiniteTransfer" <=> ~ListedWithSameSize(fp)
            /\ classified[fp] = "Skip" =>
                 (TasksOf(fp) = {} /\ fp \notin upload_file_calls)

\* C2 witness: a hashed file listed with its size, over an object of other
\* content, was skipped, and the run ended without probing or uploading it.
C2_Witness ==
    /\ pc = "done"
    /\ \E fp \in CandidatePaths :
         /\ HashedPattern(KeyOf(fp).name)
         /\ classified[fp] = "Skip"
         /\ KeyOf(fp) \in DOMAIN bucket
         /\ bucket[KeyOf(fp)].content # local[fp]
         /\ fp \notin probed
         /\ fp \notin upload_file_calls

\* C3: for a task with needs_hash_check whose head_object answered with the
\* stored metadata: if the stored filehash equals the md5 of the local file the
\* task returned False, logged Skipped, and upload_file was not called; if it
\* differs or is missing the task went on to upload_file, and once that
\* returned the task returned True and logged Updated, not Skipped.
C3_VerifyThenTransfer ==
    \A i \in DOMAIN futures :
        LET task == batch[i]
            f == futures[i]
        IN  (task.needs_hash_check /\ f.probe \notin {"none", "404", "error"}) =>
              /\ task.file_hash = md5(local[task.file_path])
              /\ f.probe = task.file_hash =>
                   /\ f.st = "returned"
                   /\ ~f.was_uploaded
                   /\ task.file_path \notin upload_file_calls
                   /\ Logged("Skipped", task.file_path)
                   /\ ~Logged("Updated", task.file_path)
              /\ f.probe # task.file_hash =>
                   /\ f.st \in {"put", "returned", "raised"}
                   /\ f.st # "put" => task.file_path \in upload_file_calls
                   /\ f.st = "raised" => f.error = "upload_file"
                   /\ f.st = "returned" =>
                        /\ f.was_uploaded
                        /\ Logged("Updated", task.file_path)
                        /\ ~Logged("Skipped", task.file_path)

\* C3 witness: in one batch a verified task was skipped on equal hashes and
\* another was uploaded on different hashes.
C3_Witness ==
    \E i \in DOMAIN futures, j \in DOMAIN futures :
        /\ batch[i].needs_hash_check /\ batch[j].needs_hash_check
        /\ futures[i].probe = batch[i].file_hash
        /\ futures[i].st = "returned" /\ ~futures[i].was_uploaded
        /\ futures[j].probe \notin {"none", "404", "error", batch[j].file_hash}
        /\ futures[j].st = "returned" /\ futures[j].was_uploaded

\* C4: a task whose head_object answered 404 does not fail on it: it goes on
\* to upload_file and, unless upload_file itself raises, returns True and is
\* counted as uploaded; the counts of the batch are those of the tasks
\* collected, and the run goes on unless some task raised another error.
C4_Probe404Uploads ==
    /\ \A i \in DOMAIN futures :
         futures[i].probe = "404" =>
            /\ futures[i].st \in {"put", "returned", "raised"}
            /\ futures[i].st = "raised" => futures[i].error = "upload_file"
            /\ futures[i].st = "returned" =>
                 /\ futures[i].was_uploaded
                 /\ batch[i].key \in DOMAIN bucket \/ disturbed
    /\ pc \in {"pool", "exit_pool", "raised"} =>
         stats_counts.uploaded =
            Cardinality({i \in DOMAIN futures :
                /\ futures[i].collected
                /\ futures[i].st = "returned"
                /\ futures[i].was_uploaded})
    /\ pc \in {"exit_pool", "raised"} =>
         \E i \in DOMAIN futures :
            /\ futures[i].st = "raised"
            /\ futures[i].error = "head_object" => futures[i].probe = "error"

\* C4 witness: the batch of a task that was answered 404 and uploaded was
\* collected whole, another task of it included, and the run went on to end.
C4_Witness ==
    /\ pc = "pool"
    /\ Len(batch) > 1
    /\ \A i \in DOMAIN futures :
         futures[i].collected /\ futures[i].st = "returned"
    /\ \E i \in DOMAIN futures :
         futures[i].probe = "404" /\ futures[i].was_uploaded

\* C5: when a task raised, the exception has left upload_site only once every
\* task submitted in that batch has returned or raised, and from then on
\* nothing is submitted, probed or uploaded any more.
C5_DrainThenAbort ==
    /\ [](pc = "raised" =>
           /\ \E i \in DOMAIN futures : futures[i].st = "raised"
           /\ \A i \in DOMAIN futures :
                futures[i].st \in {"returned", "raised"})
    /\ [][pc = "raised" =>
           /\ pc' = "raised"
           /\ UNCHANGED <<batch, futures, remaining, classified, probed,
                          upload_file_calls, bucket, counts>>]_vars

\* C5 witness: the run was aborted with files not yet walked, and a task of
\* the failed batch returned without ever being collected.
C5_Witness ==
    /\ pc = "raised"
    /\ remaining # {}
    /\ \E i \in DOMAIN futures :
         /\ futures[i].st = "returned"
         /\ futures[i].was_uploaded
         /\ ~futures[i].collected

RECURSIVE SumSeq(_)
SumSeq(q) == IF q = <<>> THEN 0 ELSE Head(q) + SumSeq(Tail(q))

\* C6: a second run without refresh, on the directory and the bucket the
\* first complete run left, classifies nothing as DefiniteTransfer, calls
\* upload_file for nothing and reports 0 bytes.
C6_SecondRunUploadsNothing ==
    (second_run /\ ~refresh) =>
        /\ \A fp \in CandidatePaths : classified[fp] # "DefiniteTransfer"
        /\ upload_file_calls = {}
        /\ SumSeq(total_size) = 0


(***************************************************************************)
(* kumadownloader.py: text, dicts and paths.                               *)
(***************************************************************************)
\* Bound: objects per list_objects_v2 response of the source bucket.
DlPageSize == 2

\* too_long_name=100 of _download_file, and the 100 of download()
too_long_name == 100
\* hexdigest()[:12]
DigestLen == 12

Tab == "\t"
Newline == "\n"
Whitespace == {" ", Tab, Newline}

\* str.split(): the runs of characters that are not whitespace
TokenStarts(s) ==
    {i \in 1..Len(s) :
        /\ s[i] \notin Whitespace
        /\ IF i = 1 THEN TRUE ELSE s[i - 1] \in Whitespace}
TokenEnd(s, a) ==
    CHOOSE j \in a..Len(s) :
        /\ \A x \in a..j : s[x] \notin Whitespace
        /\ IF j = Len(s) THEN TRUE ELSE s[j + 1] \in Whitespace
split(line) ==
    [n \in 1..Cardinality(TokenStarts(line)) |->
        LET a == CHOOSE x \in TokenStarts(line) :
                    Cardinality({y \in TokenStarts(line) : y <= x}) = n
        IN  SubSeq(line, a, TokenEnd(line, a))]

\* for line in f: the text cut after every newline
LineStarts(s) ==
    {i \in 1..Len(s) : IF i = 1 THEN TRUE ELSE s[i - 1] = Newline}
LineEnd(s, a) ==
    CHOOSE j \in a..Len(s) :
        /\ \A x \in a..(j - 1) : s[x] # Newline
        /\ IF j = Len(s) THEN TRUE ELSE s[j] = Newline
readlines(text) ==
    [n \in 1..Cardinality(LineStarts(text)) |->
        LET a == CHOOSE x \in LineStarts(text) :
                    Cardinality({y \in LineStarts(text) : y <= x}) = n
        IN  SubSeq(text, a, LineEnd(text, a))]

\* a Python dict: the <<key, value>> pairs in insertion order
DictKeys(d) == {d[i][1] : i \in DOMAIN d}
DictValues(d) == {d[i][2] : i \in DOMAIN d}
DictGet(d, k) == d[CHOOSE i \in DOMAIN d : d[i][1] = k][2]
DictSet(d, k, v) ==
    IF k \in DictKeys(d)
    THEN [i \in DOMAIN d |-> IF d[i][1] = k THEN <<k, v>> ELSE d[i]]
    ELSE Append(d, <<k, v>>)
\* a dict.update that forgets what the dict held
DictUpdate_Replace(d, e) == e

RECURSIVE DictUpdate(_, _)
DictUpdate(d, e) ==
    IF e = <<>> THEN d
    ELSE DictUpdate(DictSet(d, Head(e)[1], Head(e)[2]), Tail(e))

\* lines 26-29: etag, rel_path = line.split() for every line; a line that
\* does not split in two raises ValueError
RECURSIVE LoadLines(_, _)
LoadLines(lines, d) ==
    IF lines = <<>> THEN [ok |-> TRUE, etags |-> d]
    ELSE LET t == split(Head(lines))
         IN  IF Len(t) # 2 THEN [ok |-> FALSE, etags |-> d]
             ELSE LoadLines(Tail(lines), DictSet(d, t[1], t[2]))
LoadCache(text) == LoadLines(readlines(text), <<>>)

\* lines 101-104: f.write(f"{etag}\t{rel_path}\n") for every item
RECURSIVE CacheText(_)
CacheText(d) ==
    IF d = <<>> THEN <<>>
    ELSE Head(d)[1] \o <<Tab>> \o Head(d)[2] \o <<Newline>> \o CacheText(Tail(d))

\* lines 93-95: f.write(f"{rel_path}\n") for every value
RECURSIVE NewFilesText(_)
NewFilesText(d) ==
    IF d = <<>> THEN <<>>
    ELSE Head(d)[2] \o <<Newline>> \o NewFilesText(Tail(d))

\* Path(key).parts: the runs of characters between the slashes
PartStarts(key) ==
    {i \in 1..Len(key) : key[i] # "/" /\ (IF i = 1 THEN TRUE ELSE key[i - 1] = "/")}
PartEnd(key, a) ==
    CHOOSE j \in a..Len(key) :
        /\ \A x \in a..j : key[x] # "/"
        /\ IF j = Len(key) THEN TRUE ELSE key[j + 1] = "/"
PathParts(key) ==
    [n \in 1..Cardinality(PartStarts(key)) |->
        LET a == CHOOSE x \in PartStarts(key) :
                    Cardinality({y \in PartStarts(key) : y <= x}) = n
        IN  SubSeq(key, a, PartEnd(key, a))]

\* str(path)
RECURSIVE JoinPath(_)
JoinPath(parts) ==
    IF parts = <<>> THEN <<>>
    ELSE IF Len(parts) = 1 THEN parts[1]
    ELSE parts[1] \o <<"/">> \o JoinPath(Tail(parts))

\* Path(key).parent, as parts
ParentParts(key) ==
    LET parts == PathParts(key) IN SubSeq(parts, 1, Len(parts) - 1)
\* Path(key).name
NameOf(key) == LET parts == PathParts(key) IN parts[Len(parts)]

\* Path.suffix: from the last dot on, unless the name starts or ends there
Suffix(name) ==
    LET dots == {i \in 1..Len(name) : name[i] = "."}
    IN  IF dots = {} THEN <<>>
        ELSE LET i == CHOOSE x \in dots : \A y \in dots : y <= x
             IN  IF i = 1 \/ i = Len(name) THEN <<>>
                 ELSE SubSeq(name, i, Len(name))

HexDigit(n) ==
    <<"0", "1", "2", "3", "4", "5", "6", "7", "8", "9",
      "a", "b", "c", "d", "e", "f">>[(n % 16) + 1]

\* hashlib.md5(part.encode("utf-8")).hexdigest()[:12]: twelve hex characters
\* that depend on the text alone (its length and its ends stand for the text)
Digest12(part) ==
    <<HexDigit(Len(part)), HexDigit(Len(part) \div 16),
      IF part[1] \in HexChars THEN part[1] ELSE "0",
      IF part[Len(part)] \in HexChars THEN part[Len(part)] ELSE "0">>
    \o [i \in 1..(DigestLen - 4) |-> "0"]

\* lines 151-156: every part of the directory that is too long is replaced
ShortenParts(parts) ==
    [i \in DOMAIN parts |->
        IF Len(parts[i]) > too_long_name THEN Digest12(parts[i]) ELSE parts[i]]

\* lines 197-215: where _download_file writes the object, relative to the
\* destination, and whether that is another place than the key says
FileDestination(key, long_dirs) ==
    LET parent == ParentParts(key)
        in_long == parent \in DOMAIN long_dirs
        new_parent == IF in_long THEN long_dirs[parent] ELSE parent
        name == NameOf(key)
        too_long == Len(name) > too_long_name
        new_name == IF too_long THEN Digest12(name) \o Suffix(name) ELSE name
    IN  [path |-> JoinPath(Append(new_parent, new_name)),
         rewrote |-> (in_long \/ too_long)]


(***************************************************************************)
(* The source bucket and the destination the model explores.               *)
(***************************************************************************)
K_a == <<"a">>
\* d/b c : a key with a space in it
K_bc == <<"d", "/", "b", " ", "c">>
K_e == <<"d", "/", "e">>
\* d/xxx...x.json : the name is one character longer than too_long_name
K_long == <<"d", "/">> \o [i \in 1..(too_long_name - 4) |-> "x"]
              \o <<".", "j", "s", "o", "n">>
\* yyy...y/g.json : the directory is one character longer than the 100 of
\* download()
K_dir == [i \in 1..(too_long_name + 1) |-> "y"]
              \o <<"/", "g", ".", "j", "s", "o", "n">>
\* the keys in the order list_objects_v2 returns them
KeyOrder == <<K_a, K_bc, K_e, K_long, K_dir>>
RemoteKeys == {KeyOrder[i] : i \in DOMAIN KeyOrder}

E1 == <<"E", "1">>
E2 == <<"E", "2">>
E3 == <<"E", "3">>
E4 == <<"E", "4">>
E5 == <<"E", "5">>

Absent == [ETag |-> <<>>, json |-> FALSE]
RemoteChoices(k) ==
    IF k = K_a THEN {Absent, [ETag |-> E1, json |-> TRUE]}
    ELSE IF k = K_bc THEN {Absent, [ETag |-> E2, json |-> TRUE]}
    ELSE IF k = K_e THEN {Absent, [ETag |-> E1, json |-> TRUE],
                          [ETag |-> E3, json |-> TRUE]}
    ELSE IF k = K_dir THEN {Absent, [ETag |-> E5, json |-> TRUE]}
    ELSE {Absent, [ETag |-> E4, json |-> TRUE], [ETag |-> E4, json |-> FALSE]}

Restrict(f, S) == [x \in S |-> f[x]]
\* the buckets explored: any of K_a, K_bc, K_e and K_long, or K_dir with any
\* of K_a and K_e
InitialRemotes ==
    {Restrict(r, {k \in RemoteKeys : r[k] # Absent}) :
        r \in {q \in [RemoteKeys -> UNION {RemoteChoices(k) : k \in RemoteKeys}] :
                 /\ \A k \in RemoteKeys : q[k] \in RemoteChoices(k)
                 /\ q[K_dir] # Absent =>
                       q[K_bc] = Absent /\ q[K_long] = Absent}}

\* a file of the destination: there or not, and its text
NoTextFile == [exists |-> FALSE, text |-> <<>>]
TextFile(text) == [exists |-> TRUE, text |-> text]

\* what earlier runs may have left in _etags_cache.txt
InitialCaches ==
    {<<>>,
     <<<<E1, K_a>>>>,
     <<<<E1, K_a>>, <<E3, K_e>>>>,
     <<<<E2, K_bc>>>>}

\* the file _download_file leaves: the body of the object, and the key added
\* to it when the path was rewritten
Body(etag, original_key) == [etag |-> etag, _original_key |-> original_key]
EmptyBody == Body(<<>>, <<>>)

(***************************************************************************)
(* kumadownloader.py: download_kuma_s3_bucket.                             *)
(***************************************************************************)
NoResponse == [IsTruncated |-> FALSE, NextContinuationToken |-> <<>>]
DlQueued == [st |-> "queued", fetch |-> "none", path |-> <<>>,
             collected |-> FALSE]
NoDecision == "none"

\* the locals of download_kuma_s3_bucket before the cache is read
DlStartOfRun ==
    /\ dl_pc = "idle"
    /\ downloaded_etags = <<>>
    /\ new_etags = <<>>
    /\ dl_token = <<>>
    /\ dl_response = NoResponse
    /\ todo = <<>>
    /\ too_long_directories = EmptyMap
    /\ dl_futures = <<>>
    /\ done = <<>>
    /\ loaded = <<>>
    /\ cache_before = cache_file
    /\ completed = {}
    /\ decision = [k \in RemoteKeys |-> NoDecision]
    /\ fetched = {}

DownloadInit ==
    /\ remote \in InitialRemotes
    /\ \E d \in InitialCaches, files_there \in BOOLEAN :
         /\ cache_file = IF d = <<>> THEN NoTextFile ELSE TextFile(CacheText(d))
         /\ disk = IF files_there
                   THEN [path \in DictValues(d) |->
                           Body(d[CHOOSE i \in DOMAIN d : d[i][2] = path][1], <<>>)]
                   ELSE EmptyMap
    /\ new_files_file = NoTextFile
    /\ dirs = {ParentParts(path) : path \in DOMAIN disk}
    /\ via_cli \in BOOLEAN
    /\ opt_refresh \in (IF via_cli THEN BOOLEAN ELSE {FALSE})
    /\ opt_check \in (IF via_cli THEN BOOLEAN ELSE {FALSE})
    /\ dl_second_run = FALSE
    /\ DlStartOfRun

\* main.py lines 96-112: the command calls download_kuma_s3_bucket with
\* searchfilter=, check_for_existence= and refresh=, which the function of
\* kumadownloader.py line 13 does not take: the call raises TypeError
kumadownload ==
    /\ dl_pc = "idle"
    /\ via_cli
    /\ dl_pc' = "type_error"
    /\ UNCHANGED <<remote, disk, cache_file, new_files_file, via_cli,
                   opt_refresh, opt_check, dl_second_run, downloaded_etags,
                   new_etags, dl_token, dl_response, todo, too_long_directories,
                   dl_futures, done, loaded, cache_before, completed,
                   decision, fetched, dirs>>
    /\ UNCHANGED upload_vars

\* lines 24-32: there is no cache file, FileNotFoundError is passed over
LoadMissing ==
    /\ dl_pc = "idle"
    /\ ~via_cli
    /\ ~cache_file.exists
    /\ dl_pc' = "list"
    /\ UNCHANGED <<remote, disk, cache_file, new_files_file, via_cli,
                   opt_refresh, opt_check, dl_second_run, downloaded_etags,
                   new_etags, dl_token, dl_response, todo, too_long_directories,
                   dl_futures, done, loaded, cache_before, completed,
                   decision, fetched, dirs>>
    /\ UNCHANGED upload_vars

\* lines 24-29: every line of the cache file splits into etag and rel_path
LoadCacheFile ==
    /\ dl_pc = "idle"
    /\ ~via_cli
    /\ cache_file.exists
    /\ LoadCache(cache_file.text).ok
    /\ downloaded_etags' = LoadCache(cache_file.text).etags
    /\ loaded' = LoadCache(cache_file.text).etags
    /\ dl_pc' = "list"
    /\ UNCHANGED <<remote, disk, cache_file, new_files_file, via_cli,
                   opt_refresh, opt_check, dl_second_run, new_etags,
                   dl_token, dl_response, todo, too_long_directories,
                   dl_futures, done, cache_before, completed, decision,
                   fetched, dirs>>
    /\ UNCHANGED upload_vars

\* line 28: a line does not split into two, the ValueError leaves the function
LoadValueError ==
    /\ dl_pc = "idle"
    /\ ~via_cli
    /\ cache_file.exists
    /\ ~LoadCache(cache_file.text).ok
    /\ dl_pc' = "value_error"
    /\ UNCHANGED <<remote, disk, cache_file, new_files_file, via_cli,
                   opt_refresh, opt_check, dl_second_run, downloaded_etags,
                   new_etags, dl_token, dl_response, todo, too_long_directories,
                   dl_futures, done, loaded, cache_before, completed,
                   decision, fetched, dirs>>
    /\ UNCHANGED upload_vars

\* s3.list_objects_v2(**list_kwargs) of line 54
DlListResponse ==
    LET present == SelectSeq(KeyOrder, LAMBDA k : k \in DOMAIN remote)
        pos(k) == CHOOSE i \in DOMAIN KeyOrder : KeyOrder[i] = k
        after == IF dl_token = <<>> THEN present
                 ELSE SelectSeq(present, LAMBDA k : pos(k) > pos(dl_token))
        n == IF Len(after) < DlPageSize THEN Len(after) ELSE DlPageSize
    IN  [Contents |-> [i \in 1..n |-> [Key |-> after[i],
                                       ETag |-> remote[after[i]].ETag]],
         IsTruncated |-> Len(after) > DlPageSize,
         NextContinuationToken |-> IF n = 0 THEN <<>> ELSE after[n]]

\* a line 58 that looks the key up among the paths of the cache
AlreadyDownloaded_ByPath(obj) == obj.Key \in DictValues(downloaded_etags)

\* line 58: the object is left alone when its etag is a key of downloaded_etags
AlreadyDownloaded(obj) == obj.ETag \in DictKeys(downloaded_etags)

\* lines 56-59: todo[obj["Key"]] = obj["ETag"] for the objects to download
RECURSIVE TodoOf(_)
TodoOf(objs) ==
    IF objs = <<>> THEN <<>>
    ELSE LET rest == TodoOf(SubSeq(objs, 1, Len(objs) - 1))
             obj == objs[Len(objs)]
         IN  IF AlreadyDownloaded(obj) THEN rest
             ELSE DictSet(rest, obj.Key, obj.ETag)

\* what the loop decided for the objects of a page
Decide(objs) ==
    [k \in RemoteKeys |->
        IF \E i \in DOMAIN objs : objs[i].Key = k
        THEN IF k \in DictKeys(TodoOf(objs)) THEN "download" ELSE "skip"
        ELSE decision[k]]


\* lines 82-86: the next page, or the end of the loop
AfterPage(resp) ==
    IF resp.IsTruncated
    THEN /\ dl_token' = resp.NextContinuationToken
         /\ dl_pc' = "list"
    ELSE /\ dl_pc' = "finally"
         /\ UNCHANGED dl_token

\* lines 45-60, 79-86: a page with nothing to download
ListNothingToDo ==
    /\ dl_pc = "list"
    /\ TodoOf(DlListResponse.Contents) = <<>>
    /\ decision' = Decide(DlListResponse.Contents)
    /\ dl_response' = [IsTruncated |-> DlListResponse.IsTruncated,
                       NextContinuationToken |->
                           DlListResponse.NextContinuationToken]
    /\ AfterPage(DlListResponse)
    /\ UNCHANGED <<remote, disk, cache_file, new_files_file, via_cli,
                   opt_refresh, opt_check, dl_second_run, downloaded_etags,
                   new_etags, todo, too_long_directories, dl_futures, done,
                   loaded, cache_before, completed, fetched, dirs>>
    /\ UNCHANGED upload_vars

\* the directories of download() with a part that is too long
LongDirectories(D) ==
    {d \in D : \E i \in DOMAIN d : Len(d[i]) > too_long_name}

\* a download() that does not make the directory of the shortened name
ListAndDownload_NoNewDir ==
    /\ dl_pc = "list"
    /\ TodoOf(DlListResponse.Contents) # <<>>
    /\ decision' = Decide(DlListResponse.Contents)
    /\ dl_response' = [IsTruncated |-> DlListResponse.IsTruncated,
                       NextContinuationToken |->
                           DlListResponse.NextContinuationToken]
    /\ todo' = TodoOf(DlListResponse.Contents)
    /\ LET directories == {ParentParts(k) : k \in DictKeys(todo')}
       IN  \E os_error \in SUBSET LongDirectories(directories) :
             /\ too_long_directories' = [d \in os_error |-> ShortenParts(d)]
             /\ dirs' = dirs \cup (directories \ os_error)
    /\ dl_futures' = [i \in DOMAIN todo' |-> DlQueued]
    /\ done' = <<>>
    /\ dl_pc' = "pool"
    /\ UNCHANGED <<remote, disk, cache_file, new_files_file, via_cli,
                   opt_refresh, opt_check, dl_second_run, downloaded_etags,
                   new_etags, dl_token, loaded, cache_before, completed,
                   fetched>>
    /\ UNCHANGED upload_vars

\* lines 45-68 and download() lines 132-174: a page with objects to download;
\* the directories are made (mkdir may raise OSError for one that is too
\* long, it is then made under its shortened name), the tasks are submitted
ListAndDownload ==
    /\ dl_pc = "list"
    /\ TodoOf(DlListResponse.Contents) # <<>>
    /\ decision' = Decide(DlListResponse.Contents)
    /\ dl_response' = [IsTruncated |-> DlListResponse.IsTruncated,
                       NextContinuationToken |->
                           DlListResponse.NextContinuationToken]
    /\ todo' = TodoOf(DlListResponse.Contents)
    /\ LET directories == {ParentParts(k) : k \in DictKeys(todo')}
       IN  \E os_error \in SUBSET LongDirectories(directories) :
             /\ too_long_directories' = [d \in os_error |-> ShortenParts(d)]
             /\ dirs' = dirs \cup (directories \ os_error)
                             \cup {ShortenParts(d) : d \in os_error}
    /\ dl_futures' = [i \in DOMAIN todo' |-> DlQueued]
    /\ done' = <<>>
    /\ dl_pc' = "pool"
    /\ UNCHANGED <<remote, disk, cache_file, new_files_file, via_cli,
                   opt_refresh, opt_check, dl_second_run, downloaded_etags,
                   new_etags, dl_token, loaded, cache_before, completed,
                   fetched>>
    /\ UNCHANGED upload_vars

\* line 54: list_objects_v2 raises
ListError ==
    /\ dl_pc = "list"
    /\ dl_pc' = "finally_exc"
    /\ UNCHANGED <<remote, disk, cache_file, new_files_file, via_cli,
                   opt_refresh, opt_check, dl_second_run, downloaded_etags,
                   new_etags, dl_token, dl_response, todo,
                   too_long_directories, dl_futures, done, loaded,
                   cache_before, completed, decision, fetched, dirs>>
    /\ UNCHANGED upload_vars

(***************************************************************************)
(* kumadownloader.py: _download_file, one worker per entry of todo.        *)
(***************************************************************************)
DlPoolOpen == dl_pc \in {"pool", "exit_pool"}
TargetOf(i) == FileDestination(todo[i][1], too_long_directories)

\* lines 196-226: the object is written to its file, with _original_key
\* added when the path was rewritten
Fetch(i) ==
    /\ DlPoolOpen
    /\ i \in DOMAIN dl_futures
    /\ dl_futures[i].st = "queued"
    /\ todo[i][1] \in DOMAIN remote
    /\ TargetOf(i).rewrote => remote[todo[i][1]].json
    /\ disk' = Put(disk, TargetOf(i).path,
                   Body(remote[todo[i][1]].ETag,
                        IF TargetOf(i).rewrote THEN todo[i][1] ELSE <<>>))
    /\ fetched' = fetched \cup {todo[i][1]}
    /\ dl_futures' = [dl_futures EXCEPT ![i].st = "returned",
                                        ![i].fetch = "ok",
                                        ![i].path = TargetOf(i).path]
    /\ UNCHANGED <<remote, cache_file, new_files_file, via_cli, opt_refresh,
                   opt_check, dl_second_run, dl_pc, downloaded_etags,
                   new_etags, dl_token, dl_response, todo,
                   too_long_directories, done, loaded, cache_before,
                   completed, decision, dirs>>
    /\ UNCHANGED upload_vars

\* lines 219-221: the path was rewritten and the body is no JSON: json.load
\* raises
FetchJsonError(i) ==
    /\ DlPoolOpen
    /\ i \in DOMAIN dl_futures
    /\ dl_futures[i].st = "queued"
    /\ todo[i][1] \in DOMAIN remote
    /\ TargetOf(i).rewrote
    /\ ~remote[todo[i][1]].json
    /\ disk' = Put(disk, TargetOf(i).path,
                   Body(remote[todo[i][1]].ETag, <<>>))
    /\ fetched' = fetched \cup {todo[i][1]}
    /\ dl_futures' = [dl_futures EXCEPT ![i].st = "raised",
                                        ![i].fetch = "json_error"]
    /\ UNCHANGED <<remote, cache_file, new_files_file, via_cli, opt_refresh,
                   opt_check, dl_second_run, dl_pc, downloaded_etags,
                   new_etags, dl_token, dl_response, todo,
                   too_long_directories, done, loaded, cache_before,
                   completed, decision, dirs>>
    /\ UNCHANGED upload_vars

\* lines 217-218: the object is gone, download_fileobj raises the ClientError
\* of the 404; nothing catches it
Fetch404(i) ==
    /\ DlPoolOpen
    /\ i \in DOMAIN dl_futures
    /\ dl_futures[i].st = "queued"
    /\ todo[i][1] \notin DOMAIN remote
    /\ disk' = Put(disk, TargetOf(i).path, EmptyBody)
    /\ fetched' = fetched \cup {todo[i][1]}
    /\ dl_futures' = [dl_futures EXCEPT ![i].st = "raised",
                                        ![i].fetch = "404"]
    /\ UNCHANGED <<remote, cache_file, new_files_file, via_cli, opt_refresh,
                   opt_check, dl_second_run, dl_pc, downloaded_etags,
                   new_etags, dl_token, dl_response, todo,
                   too_long_directories, done, loaded, cache_before,
                   completed, decision, dirs>>
    /\ UNCHANGED upload_vars

\* lines 217-218: download_fileobj raises another error
FetchError(i) ==
    /\ DlPoolOpen
    /\ i \in DOMAIN dl_futures
    /\ dl_futures[i].st = "queued"
    /\ disk' = Put(disk, TargetOf(i).path, EmptyBody)
    /\ fetched' = fetched \cup {todo[i][1]}
    /\ dl_futures' = [dl_futures EXCEPT ![i].st = "raised",
                                        ![i].fetch = "error"]
    /\ UNCHANGED <<remote, cache_file, new_files_file, via_cli, opt_refresh,
                   opt_check, dl_second_run, dl_pc, downloaded_etags,
                   new_etags, dl_token, dl_response, todo,
                   too_long_directories, done, loaded, cache_before,
                   completed, decision, dirs>>
    /\ UNCHANGED upload_vars

(***************************************************************************)
(* kumadownloader.py: download(), the thread of download_kuma_s3_bucket.   *)
(***************************************************************************)
\* lines 176-182: as_completed hands over a future that returned
DlCollect(i) ==
    /\ dl_pc = "pool"
    /\ i \in DOMAIN dl_futures
    /\ dl_futures[i].st = "returned"
    /\ ~dl_futures[i].collected
    /\ done' = DictSet(done, todo[i][2], dl_futures[i].path)
    /\ dl_futures' = [dl_futures EXCEPT ![i].collected = TRUE]
    /\ UNCHANGED <<remote, disk, cache_file, new_files_file, via_cli,
                   opt_refresh, opt_check, dl_second_run, dl_pc,
                   downloaded_etags, new_etags, dl_token, dl_response, todo,
                   too_long_directories, loaded, cache_before, completed,
                   decision, fetched, dirs>>
    /\ UNCHANGED upload_vars

\* line 177: future.result() raises what the worker raised
DlCollectRaise(i) ==
    /\ dl_pc = "pool"
    /\ i \in DOMAIN dl_futures
    /\ dl_futures[i].st = "raised"
    /\ ~dl_futures[i].collected
    /\ dl_futures' = [dl_futures EXCEPT ![i].collected = TRUE]
    /\ dl_pc' = "exit_pool"
    /\ UNCHANGED <<remote, disk, cache_file, new_files_file, via_cli,
                   opt_refresh, opt_check, dl_second_run, downloaded_etags,
                   new_etags, dl_token, dl_response, todo,
                   too_long_directories, done, loaded, cache_before,
                   completed, decision, fetched, dirs>>
    /\ UNCHANGED upload_vars

\* the with block of line 163 is left once every worker is through; the
\* exception goes on to the finally of line 88
DlExitPool ==
    /\ dl_pc = "exit_pool"
    /\ \A i \in DOMAIN dl_futures : dl_futures[i].st \in {"returned", "raised"}
    /\ dl_pc' = "finally_exc"
    /\ UNCHANGED <<remote, disk, cache_file, new_files_file, via_cli,
                   opt_refresh, opt_check, dl_second_run, downloaded_etags,
                   new_etags, dl_token, dl_response, todo,
                   too_long_directories, dl_futures, done, loaded,
                   cache_before, completed, decision, fetched, dirs>>
    /\ UNCHANGED upload_vars

\* line 185 and lines 69-86: download() returns done, new_etags.update(done)
EndDownload ==
    /\ dl_pc = "pool"
    /\ \A i \in DOMAIN dl_futures : dl_futures[i].collected
    /\ new_etags' = DictUpdate(new_etags, done)
    /\ completed' = completed \cup DictValues(todo)
    /\ todo' = <<>>
    /\ dl_futures' = <<>>
    /\ done' = <<>>
    /\ AfterPage(dl_response)
    /\ UNCHANGED <<remote, disk, cache_file, new_files_file, via_cli,
                   opt_refresh, opt_check, dl_second_run, downloaded_etags,
                   dl_response, too_long_directories, loaded, cache_before,
                   decision, fetched, dirs>>
    /\ UNCHANGED upload_vars

\* a cache file written from the new entries alone
MergedCacheText_NewOnly == CacheText(new_etags)

\* lines 98-104: the text written to the cache file
MergedCacheText == CacheText(DictUpdate(downloaded_etags, new_etags))

\* lines 88-108: the finally block
Finally ==
    IF new_etags # <<>>
    THEN /\ new_files_file' = TextFile(NewFilesText(new_etags))
         /\ downloaded_etags' = DictUpdate(downloaded_etags, new_etags)
         /\ cache_file' = TextFile(MergedCacheText)
    ELSE UNCHANGED <<new_files_file, downloaded_etags, cache_file>>

\* the loop ended: the finally block, then lines 110-111
FinallyReturn ==
    /\ dl_pc = "finally"
    /\ Finally
    /\ dl_pc' = "done"
    /\ UNCHANGED <<remote, disk, via_cli, opt_refresh, opt_check,
                   dl_second_run, new_etags, dl_token, dl_response, todo,
                   too_long_directories, dl_futures, done, loaded,
                   cache_before, completed, decision, fetched, dirs>>
    /\ UNCHANGED upload_vars

\* an exception is under way: the finally block, then the exception leaves
\* download_kuma_s3_bucket
FinallyRaise ==
    /\ dl_pc = "finally_exc"
    /\ Finally
    /\ dl_pc' = "raised"
    /\ UNCHANGED <<remote, disk, via_cli, opt_refresh, opt_check,
                   dl_second_run, new_etags, dl_token, dl_response, todo,
                   too_long_directories, dl_futures, done, loaded,
                   cache_before, completed, decision, fetched, dirs>>
    /\ UNCHANGED upload_vars

\* someone deletes an object of the page after it was listed
ExternalDeleteRemote(k) ==
    /\ dl_pc = "pool"
    /\ k \in DOMAIN remote
    /\ k \in DictKeys(todo)
    /\ remote' = Remove(remote, k)
    /\ UNCHANGED <<disk, cache_file, new_files_file, via_cli, opt_refresh,
                   opt_check, dl_second_run, dl_pc, downloaded_etags,
                   new_etags, dl_token, dl_response, todo,
                   too_long_directories, dl_futures, done, loaded,
                   cache_before, completed, decision, fetched, dirs>>
    /\ UNCHANGED upload_vars

\* download_kuma_s3_bucket is called again for the same bucket and destination
DlRerun ==
    /\ dl_pc = "done"
    /\ ~dl_second_run
    /\ dl_second_run' = TRUE
    /\ dl_pc' = "idle"
    /\ downloaded_etags' = <<>>
    /\ new_etags' = <<>>
    /\ dl_token' = <<>>
    /\ dl_response' = NoResponse
    /\ todo' = <<>>
    /\ too_long_directories' = EmptyMap
    /\ dl_futures' = <<>>
    /\ done' = <<>>
    /\ loaded' = <<>>
    /\ cache_before' = cache_file
    /\ completed' = {}
    /\ decision' = [k \in RemoteKeys |-> NoDecision]
    /\ fetched' = {}
    /\ UNCHANGED <<remote, disk, cache_file, new_files_file, via_cli,
                   opt_refresh, opt_check, dirs>>
    /\ UNCHANGED upload_vars

(***************************************************************************)
(* The process is killed: nothing of the program runs any more, the files  *)
(* stay as they are at that moment.                                        *)
(***************************************************************************)
\* the finally block of line 88 has been entered
InFinally == dl_pc \in {"finally", "finally_exc"}

\* killed in the page loop, or in a finally block that has nothing to write
Kill ==
    /\ \/ dl_pc \in {"list", "pool", "exit_pool"}
       \/ InFinally /\ new_etags = <<>>
    /\ dl_pc' = "killed"
    /\ UNCHANGED <<remote, disk, cache_file, new_files_file, via_cli,
                   opt_refresh, opt_check, dl_second_run, downloaded_etags,
                   new_etags, dl_token, dl_response, todo,
                   too_long_directories, dl_futures, done, loaded,
                   cache_before, completed, decision, fetched, dirs>>
    /\ UNCHANGED upload_vars

\* killed in lines 93-95: open(new_files_file, "w") has emptied the file and
\* the first n paths are written
KillInNewFiles ==
    /\ InFinally
    /\ new_etags # <<>>
    /\ \E n \in 0..Len(new_etags) :
         new_files_file' = TextFile(NewFilesText(SubSeq(new_etags, 1, n)))
    /\ dl_pc' = "killed"
    /\ UNCHANGED <<remote, disk, cache_file, via_cli, opt_refresh, opt_check,
                   dl_second_run, downloaded_etags, new_etags, dl_token,
                   dl_response, todo, too_long_directories, dl_futures, done,
                   loaded, cache_before, completed, decision, fetched, dirs>>
    /\ UNCHANGED upload_vars

\* killed in lines 101-104: open(etags_cache_file, "w") has emptied the file
\* and the first n entries of downloaded_etags are written
KillInCacheRewrite ==
    /\ InFinally
    /\ new_etags # <<>>
    /\ new_files_file' = TextFile(NewFilesText(new_etags))
    /\ downloaded_etags' = DictUpdate(downloaded_etags, new_etags)
    /\ \E n \in 0..Len(downloaded_etags') :
         cache_file' = TextFile(CacheText(SubSeq(downloaded_etags', 1, n)))
    /\ dl_pc' = "killed"
    /\ UNCHANGED <<remote, disk, via_cli, opt_refresh, opt_check,
                   dl_second_run, new_etags, dl_token, dl_response, todo,
                   too_long_directories, dl_futures, done, loaded,
                   cache_before, completed, decision, fetched, dirs>>
    /\ UNCHANGED upload_vars

(***************************************************************************)
(* Properties of the download.                                             *)
(***************************************************************************)
\* the run of download_kuma_s3_bucket is over, however it ended
DlOver == dl_pc \in {"done", "raised", "type_error", "value_error"}

\* the condition under which the ETag E of an object is to be left alone
SkipCondition(E) ==
    /\ ~opt_refresh
    /\ E \in DictKeys(loaded)
    /\ IF opt_check /\ E \in DictKeys(loaded)
       THEN DictGet(loaded, E) \in DOMAIN disk
       ELSE TRUE

\* C7: when the command has ended without a store error, every object of the
\* source bucket was skipped if it was not a refresh, its ETag was in the
\* cache that was loaded and (the existence check was off or the cached file
\* was there), and was downloaded in every other case.
C7_SkipIffCached ==
    dl_pc \in {"done", "type_error"} =>
        \A k \in DOMAIN remote :
            IF SkipCondition(remote[k].ETag)
            THEN decision[k] = "skip" /\ k \notin fetched
            ELSE decision[k] = "download" /\ k \in fetched

\* C8: in a run that follows a run that completed, with the same source
\* bucket and the same destination, nothing is put on the list to download,
\* download_fileobj is called for nothing, and the cache file keeps the
\* content the first run left.
C8_SecondRunDownloadsNothing ==
    dl_second_run =>
        /\ fetched = {}
        /\ todo = <<>>
        /\ \A k \in RemoteKeys : decision[k] # "download"
        /\ cache_file = cache_before

\* C8 witness: the second run has returned, after a first run that downloaded
\* objects and wrote the cache, and it skipped objects of the bucket.
C8_Witness ==
    /\ dl_second_run
    /\ dl_pc = "done"
    /\ new_files_file.exists
    /\ cache_file.exists
    /\ \E k \in DOMAIN remote : decision[k] = "skip"

\* C9: a fetch that is answered not found does not fail its task, and a run
\* only aborts when a task failed on something else than not found or the
\* listing failed.
C9_NotFoundSkipped ==
    /\ \A i \in DOMAIN dl_futures :
         dl_futures[i].fetch = "404" => dl_futures[i].st # "raised"
    /\ dl_pc \in {"exit_pool", "finally_exc", "raised"} =>
         \/ dl_futures = <<>>
         \/ \E i \in DOMAIN dl_futures :
              dl_futures[i].st = "raised" /\ dl_futures[i].fetch # "404"

\* the lines of the cache file
CacheLines == {readlines(cache_file.text)[i] :
                 i \in DOMAIN readlines(cache_file.text)}

\* C10: when an error has left download_kuma_s3_bucket after the cache was
\* read, the cache file holds the line of every entry that was loaded and a
\* line for every etag of every page whose downloads were all completed.
C10_FlushOnAbort ==
    dl_pc = "raised" =>
        /\ \A i \in DOMAIN loaded :
             (loaded[i][1] \o <<Tab>> \o loaded[i][2] \o <<Newline>>)
                \in CacheLines
        /\ \A e \in completed :
             \E line \in CacheLines :
                /\ Len(line) > Len(e) + 1
                /\ SubSeq(line, 1, Len(e) + 1) = e \o <<Tab>>
        /\ (loaded # <<>> \/ completed # {}) => cache_file.exists

\* C10 witness: the run was aborted on a later page, with entries loaded at
\* the start and a page of downloads completed before.
C10_Witness ==
    /\ dl_pc = "raised"
    /\ loaded # <<>>
    /\ completed # {}
    /\ new_etags # <<>>


\* the etag a line of the cache file starts with: the text before the tab
LineEtag(line) ==
    LET tabs == {i \in 1..Len(line) : line[i] = Tab}
    IN  IF tabs = {} THEN line
        ELSE SubSeq(line, 1, (CHOOSE i \in tabs : \A j \in tabs : i <= j) - 1)

\* C11: when the process is killed, the cache file on disk has a line for the
\* etag of every object of every page whose downloads were completed.
C11_CachePersistedPerBatch ==
    dl_pc = "killed" =>
        \A e \in completed : \E line \in CacheLines : LineEtag(line) = e

\* C12: when the process is killed, the cache file holds either the complete
\* content it had when the run started or the complete merged content.
C12_AtomicRewrite ==
    dl_pc = "killed" =>
        \/ cache_file = cache_before
        \/ cache_file = TextFile(MergedCacheText)


\* the lines of the cache file as it was when the run started
CacheLinesBefore == {readlines(cache_before.text)[i] :
                       i \in DOMAIN readlines(cache_before.text)}

\* C13: at every moment of a run, and when it has ended with or without an
\* error, every line (etag, tab, path) the cache file had when the run started
\* is still in the cache file, and every other line of it is for an etag the
\* file had no line for at the start.
C13_AppendOnly ==
    /\ CacheLinesBefore \subseteq CacheLines
    /\ \A line \in CacheLines \ CacheLinesBefore :
         \A old \in CacheLinesBefore : LineEtag(line) # LineEtag(old)

\* C13 witness: a run that started with entries in the cache file has
\* returned and has added entries to it.
C13_Witness ==
    /\ dl_pc = "done"
    /\ CacheLinesBefore # {}
    /\ CacheLines \ CacheLinesBefore # {}

\* C14: reading the cache never ends the run: download_kuma_s3_bucket always
\* gets past the cache file, and when the file has a line that is not
\* (etag, path) it goes on with an empty cache.
C14_LoadNeverFails ==
    /\ dl_pc # "value_error"
    /\ (~via_cli /\ dl_pc # "idle" /\ ~LoadCache(cache_before.text).ok) =>
          downloaded_etags = <<>>

\* C15: the cache file a run has written is read by the next run without an
\* error, and what was read, written again, is the same set of lines.
C15_CacheRoundTrip ==
    (dl_second_run /\ dl_pc # "idle") =>
        /\ dl_pc # "value_error"
        /\ {readlines(CacheText(loaded))[i] :
              i \in DOMAIN readlines(CacheText(loaded))} = CacheLinesBefore

\* the lines of the new files log
NewFilesLines == {readlines(new_files_file.text)[i] :
                    i \in DOMAIN readlines(new_files_file.text)}
\* the path of a line of the cache file, with its newline: the text after the tab
LinePath(line) == SubSeq(line, Len(LineEtag(line)) + 2, Len(line))

\* C16: when a run has ended, the lines of the new files log are the paths of
\* the lines the run added to the cache file, and no other.
C16_NewFilesLog ==
    dl_pc \in {"done", "raised"} =>
        NewFilesLines = {LinePath(line) : line \in CacheLines \ CacheLinesBefore}

\* the number of pages a listing of n keys takes
PagesOf(n) == IF n = 0 THEN 1 ELSE ((n + PageSize) - 1) \div PageSize

C20_HashOnce ==
    /\ [](\A i \in DOMAIN batch :
            /\ classified[batch[i].file_path]
                  \in {"DefiniteTransfer", "VerifyThenTransfer"}
            /\ batch[i].file_hash # None =>
                  /\ i \in DOMAIN futures
                  /\ futures[i].st # "queued"
                  /\ batch[i].file_hash = md5(local[batch[i].file_path]))
    /\ [](\A fp \in CandidatePaths :
            classified[fp] \in {"Skip", "junk", Unclassified} => TasksOf(fp) = {})
    /\ [][\A i \in DOMAIN batch :
            (/\ i \in DOMAIN batch'
             /\ batch'[i].file_path = batch[i].file_path
             /\ batch'[i].file_hash # batch[i].file_hash) =>
                /\ batch[i].file_hash = None
                /\ futures[i].st = "queued"
                /\ futures'[i].st # "queued"]_vars

\* C20 witness: in a run that skipped a file, a task that was hashed has gone
\* through head_object and upload_file and has returned.
C20_Witness ==
    /\ \E fp \in CandidatePaths : classified[fp] = "Skip"
    /\ \E i \in DOMAIN batch :
         /\ batch[i].file_hash # None
         /\ batch[i].needs_hash_check
         /\ i \in DOMAIN futures
         /\ futures[i].st = "returned"
         /\ futures[i].was_uploaded

\* C18: every file a download task has written has a path of which no part,
\* directory or file name, is longer than too_long_name.
C18_NormalizedLength ==
    \A i \in DOMAIN dl_futures :
        dl_futures[i].st = "returned" =>
            \A n \in DOMAIN PathParts(dl_futures[i].path) :
                Len(PathParts(dl_futures[i].path)[n]) <= too_long_name

\* C19: while the workers of a page run, the directory of the file each task
\* writes is there; and a step that makes a directory is the step of
\* download() before its workers start, when every task is still queued.
C19_DirectoriesFirst ==
    /\ [](DlPoolOpen =>
            \A i \in DOMAIN dl_futures :
                ParentParts(TargetOf(i).path) \in dirs)
    /\ [][dirs' # dirs =>
            /\ dl_pc = "list"
            /\ dl_pc' = "pool"
            /\ \A i \in DOMAIN dl_futures' : dl_futures'[i].st = "queued"]_vars

\* C19 witness: a task whose directory was too long has written its file
\* under the directory of the shortened name.
C19_Witness ==
    /\ dl_pc = "pool"
    /\ DOMAIN too_long_directories # {}
    /\ \E i \in DOMAIN dl_futures :
         /\ dl_futures[i].st = "returned"
         /\ TargetOf(i).rewrote
         /\ dl_futures[i].path \in DOMAIN disk

RECURSIVE SizeSum(_)
\* the sizes of a set of local files, added up
SizeSum(S) ==
    IF S = {} THEN 0
    ELSE LET fp == CHOOSE x \in S : TRUE
         IN  SizeOf(local[fp]) + SizeSum(S \ {fp})

\* C21: when upload_site has ended, the total it reports, the sum of
\* total_size, is the sum of the sizes of the files that were uploaded.
C21_TotalSizeUploaded ==
    pc = "done" => SumSeq(total_size) = SizeSum(upload_file_calls)

\* the files the walk has handed on for upload
Submittable == {fp \in CandidatePaths :
                  classified[fp] \in {"DefiniteTransfer", "VerifyThenTransfer"}}

\* C22: a batch never holds more than BatchLimit tasks and never two for one
\* file; a file only gets a task at the moment the walk classifies it; and
\* when the run has ended without error, every file there is has been walked,
\* the number of tasks sent to the pool is the number of files classified
\* DefiniteTransfer or VerifyThenTransfer, and the two counts add up to it.
C22_TaskConservation ==
    /\ [](/\ Len(batch) <= BatchLimit
          /\ \A fp \in CandidatePaths : Cardinality(TasksOf(fp)) <= 1
          /\ \A i \in DOMAIN batch : batch[i].file_path \in Submittable)
    /\ [](pc = "done" =>
            /\ \A fp \in CandidatePaths :
                 local[fp] # NoFile => classified[fp] # Unclassified
            /\ batch = <<>>
            /\ total_count = Cardinality(Submittable)
            /\ counts.uploaded + counts.not_uploaded = total_count)
    /\ [][\A fp \in CandidatePaths :
            (TasksOf(fp) = {} /\ \E i \in DOMAIN batch' :
                                    batch'[i].file_path = fp) =>
                classified[fp] = Unclassified]_vars

\* C22 witness: a run has ended without error after a full batch and a final
\* batch that was not full.
C22_Witness ==
    /\ pc = "done"
    /\ Len(total_size) = 2
    /\ total_count = BatchLimit + 1
    /\ skipped > 0

\* C23: no two tasks of a batch have the same key.
C23_DistinctKeys ==
    \A i, j \in DOMAIN batch : batch[i].key = batch[j].key => i = j

\* C24: no two objects that were downloaded in a run have the same etag.
C24_EtagOnce ==
    \A k1, k2 \in fetched \cap DOMAIN remote :
        remote[k1].ETag = remote[k2].ETag => k1 = k2

(***************************************************************************)
(* Specifications.                                                         *)
(***************************************************************************)
\* nothing is being uploaded
UploadIdle ==
    /\ local = [p \in CandidatePaths |-> NoFile]
    /\ bucket = EmptyMap
    /\ refresh = FALSE
    /\ second_run = FALSE
    /\ disturbed = FALSE
    /\ pc = "idle"
    /\ continuation_token = NoToken
    /\ uploaded_already = EmptyMap
    /\ remaining = {}
    /\ batch = <<>>
    /\ futures = <<>>
    /\ stats_counts = [uploaded |-> 0, not_uploaded |-> 0]
    /\ counts = [uploaded |-> 0, not_uploaded |-> 0]
    /\ total_size = <<>>
    /\ skipped = 0
    /\ total_count = 0
    /\ classified = [p \in CandidatePaths |-> Unclassified]
    /\ probed = {}
    /\ upload_file_calls = {}
    /\ log = {}
    /\ list_calls = <<>>

\* nothing is being downloaded
DownloadIdle ==
    /\ remote = EmptyMap
    /\ disk = EmptyMap
    /\ cache_file = NoTextFile
    /\ new_files_file = NoTextFile
    /\ dirs = {}
    /\ via_cli = FALSE
    /\ opt_refresh = FALSE
    /\ opt_check = FALSE
    /\ dl_second_run = FALSE
    /\ DlStartOfRun

InitUpload == UploadInit /\ DownloadIdle
SpecUpload == InitUpload /\ [][NextUpload]_vars
SpecRerun == InitUpload /\ [][NextRerun]_vars

DlWorker == \E i \in 1..DlPageSize : Fetch(i) \/ FetchJsonError(i)
DlWorkerError == \E i \in 1..DlPageSize : Fetch404(i) \/ FetchError(i)
DlCollector ==
    \/ \E i \in 1..DlPageSize : DlCollect(i) \/ DlCollectRaise(i)
    \/ DlExitPool
    \/ EndDownload

NextDownload ==
    \/ kumadownload
    \/ LoadMissing
    \/ LoadCacheFile
    \/ LoadValueError
    \/ ListNothingToDo
    \/ ListAndDownload
    \/ ListError
    \/ DlWorker
    \/ DlWorkerError
    \/ DlCollector
    \/ FinallyReturn
    \/ FinallyRaise
    \/ \E k \in RemoteKeys : ExternalDeleteRemote(k)

InitDownload == DownloadInit /\ UploadIdle
SpecDownload == InitDownload /\ [][NextDownload]_vars

NextDownloadRerun ==
    \/ LoadMissing
    \/ LoadCacheFile
    \/ LoadValueError
    \/ ListNothingToDo
    \/ ListAndDownload
    \/ DlWorker
    \/ DlCollector
    \/ FinallyReturn
    \/ FinallyRaise
    \/ DlRerun

InitDownloadRerun == DownloadInit /\ UploadIdle /\ ~via_cli
SpecDownloadRerun == InitDownloadRerun /\ [][NextDownloadRerun]_vars

NextDownloadKill ==
    \/ LoadMissing
    \/ LoadCacheFile
    \/ LoadValueError
    \/ ListNothingToDo
    \/ ListAndDownload
    \/ DlWorker
    \/ DlCollector
    \/ FinallyReturn
    \/ FinallyRaise
    \/ Kill
    \/ KillInNewFiles
    \/ KillInCacheRewrite

SpecDownloadKill == InitDownloadRerun /\ [][NextDownloadKill]_vars

\* the listing of upload_site alone; the loop is the only thing running, so
\* it always gets its next turn
NextListing ==
    \/ Refresh
    \/ ListObjects

SpecListing == InitUpload /\ [][NextListing]_vars /\ WF_vars(NextListing)

====
